---------------------------- MODULE Spec2Model ----------------------------
(***************************************************************************)
(* A model of universal_site_downloader.py: the WebsiteDownloader crawl    *)
(* loop, its URL -> local path mapping and its link rewriting.             *)
(*                                                                         *)
(* Text is modelled as a sequence of one-character strings, so that the    *)
(* string functions of the program (split, strip, re.sub, unquote,         *)
(* os.path.relpath, urljoin) are computed character by character.          *)
(* A URL is the record urlparse returns: scheme, netloc, path, query and   *)
(* fragment; path is text, the other components are atoms.                 *)
(***************************************************************************)
EXTENDS Integers, Sequences, FiniteSets, TLC

VARIABLES
    site,             \* the website the server holds (the environment)
    base_url,         \* the seed as given to __init__
    delay,            \* self.delay
    robots_parser,    \* self.robots_parser: NoParser or a Parser
    url_queue,        \* self.url_queue
    downloaded_urls,  \* self.downloaded_urls
    downloaded_files, \* self.downloaded_files
    failed_urls,      \* self.failed_urls
    pc,               \* where download_website / main is
    cur,              \* the url process_html_page is working on
    soup,             \* the parsed document of cur
    pending,          \* the assets of cur the loop of line 264 has not reached
    files,            \* the output directory: local path -> what was written
    getCount,         \* session.get calls made so far, per URL
    last,             \* the step the program took last
    summary,          \* the summary download_website logged, or NoSummary
    enqueued,         \* history: every URL ever appended to url_queue, in the
                      \* order of its first append, with the link distance
                      \* from the seed at which it was found
    attempted         \* history: the URLs popleft has handed to the loop body

vars == <<site, base_url, delay, robots_parser, url_queue, downloaded_urls,
          downloaded_files, failed_urls, pc, cur, soup, pending, files,
          getCount, last, summary, enqueued, attempted>>

----------------------------------------------------------------------------
(* Bounds of the model *)

\* getCount saturates here: the crawl loop may run for ever
MaxCount == 2

\* filename[:255] of sanitize_filename
MaxName == 255

----------------------------------------------------------------------------
(* Text *)

Min(a, b) == IF a < b THEN a ELSE b

Range(s) == {s[i] : i \in 1..Len(s)}

\* s.startswith(p)
StartsWith(s, p) == Len(p) <= Len(s) /\ SubSeq(s, 1, Len(p)) = p

\* the parts of s from position start on, with s scanned up to position i
RECURSIVE SplitFrom(_, _, _, _)
SplitFrom(s, sep, start, i) ==
    IF i > Len(s) THEN <<SubSeq(s, start, Len(s))>>
    ELSE IF s[i] = sep
    THEN <<SubSeq(s, start, i - 1)>> \o SplitFrom(s, sep, i + 1, i + 1)
    ELSE SplitFrom(s, sep, start, i + 1)

\* s.split(sep): "a//b" gives a, "", b and "" gives ""
Split(s, sep) == SplitFrom(s, sep, 1, 1)

\* sep.join(parts)
RECURSIVE Join(_, _)
Join(parts, sep) ==
    IF Len(parts) = 0 THEN <<>>
    ELSE IF Len(parts) = 1 THEN parts[1]
    ELSE parts[1] \o <<sep>> \o Join(Tail(parts), sep)

\* s.lstrip(chars)
RECURSIVE LStrip(_, _)
LStrip(s, chars) ==
    IF Len(s) > 0 /\ s[1] \in chars THEN LStrip(Tail(s), chars) ELSE s

\* s[:n] without the characters of chars at its end
RECURSIVE RStripTo(_, _, _)
RStripTo(s, chars, n) ==
    IF n > 0 /\ s[n] \in chars THEN RStripTo(s, chars, n - 1)
    ELSE SubSeq(s, 1, n)

\* s.rstrip(chars)
RStrip(s, chars) == RStripTo(s, chars, Len(s))

\* s.strip(chars)
Strip(s, chars) == RStrip(LStrip(s, chars), chars)

\* parts without its empty elements
RECURSIVE NonEmpty(_)
NonEmpty(parts) ==
    IF Len(parts) = 0 THEN <<>>
    ELSE IF parts[1] = <<>> THEN NonEmpty(Tail(parts))
    ELSE <<parts[1]>> \o NonEmpty(Tail(parts))

\* the two-digit escapes unquote decodes in this model's alphabet
Escapes == {<<"2", "0">>, <<"2", "F">>, <<"3", "F">>}

Decoded(pair) ==
    CASE pair = <<"2", "0">> -> " "
      [] pair = <<"2", "F">> -> "/"
      [] pair = <<"3", "F">> -> "?"

\* s decoded from position i on
RECURSIVE UnquoteFrom(_, _)
UnquoteFrom(s, i) ==
    IF i > Len(s) THEN <<>>
    ELSE IF s[i] = "%" /\ i + 2 <= Len(s) /\ SubSeq(s, i + 1, i + 2) \in Escapes
    THEN <<Decoded(SubSeq(s, i + 1, i + 2))>> \o UnquoteFrom(s, i + 3)
    ELSE <<s[i]>> \o UnquoteFrom(s, i + 1)

\* urllib.parse.unquote: %XX becomes its character, anything else stays
unquote(s) == UnquoteFrom(s, 1)

----------------------------------------------------------------------------
(* sanitize_filename and get_local_path *)

\* the class [<>:"/\|?*] of line 79
InvalidChars == {"<", ">", ":", "\"", "/", "\\", "|", "?", "*"}

\* re.sub(r'[<>:"/\\|?*]', '_', filename)
ReplaceInvalid(s) ==
    [i \in 1..Len(s) |-> IF s[i] \in InvalidChars THEN "_" ELSE s[i]]

\* re.sub(r'_+', '_', filename)
RECURSIVE CollapseUnderscores(_)
CollapseUnderscores(s) ==
    IF Len(s) = 0 THEN <<>>
    ELSE IF Len(s) >= 2 /\ s[1] = "_" /\ s[2] = "_"
    THEN CollapseUnderscores(Tail(s))
    ELSE <<s[1]>> \o CollapseUnderscores(Tail(s))

\* s[:n]
Prefix(s, n) == SubSeq(s, 1, Min(Len(s), n))

sanitize_filename(filename) ==
    Prefix(Strip(CollapseUnderscores(ReplaceInvalid(filename)),
                 {".", " ", "_"}),
           MaxName)

\* the last element of a sequence, "" for none
LastOr(comps) == IF Len(comps) = 0 THEN <<>> ELSE comps[Len(comps)]

IsComponent(c) == c # <<>> /\ c # <<".">>

\* Path(path).name: the last component, "" and "." components dropped
PathName(path) == LastOr(SelectSeq(Split(path, "/"), IsComponent))

\* output_dir / Path(*parts): a local path is the sequence of its components
\* below output_dir; pathlib drops the empty ones
UnderOutputDir(parts) == NonEmpty(parts)

IndexHtml == <<"i", "n", "d", "e", "x", ".", "h", "t", "m", "l">>
DotHtml == <<".", "h", "t", "m", "l">>

\* lines 96-101: a directory gets index.html, a name without a dot .html
WithSuffix(path) ==
    IF Len(path) > 0 /\ path[Len(path)] = "/" THEN path \o IndexHtml
    ELSE IF "." \notin Range(PathName(path)) THEN path \o DotHtml
    ELSE path

\* line 104
SanitizeParts(split) ==
    [i \in 1..Len(split) |-> sanitize_filename(split[i])]

\* lines 90-105 for the decoded path
LocalPathOf(path) ==
    IF path = <<>> \/ path = <<"/">> THEN <<IndexHtml>>
    ELSE UnderOutputDir(
             SanitizeParts(Split(WithSuffix(LStrip(path, {"/"})), "/")))

\* the paths of the URLs the modelled sites give rise to
RootT  == <<"/">>
AboutT == <<"/", "a", "b", "o", "u", "t">>
LogoT  == <<"/", "i", "m", "g", "/", "l", "o", "g", "o", ".", "p", "n", "g">>
StyleT == <<"/", "s", "t", "y", "l", "e", ".", "c", "s", "s">>
PostT  == <<"/", "p", "/", "a">>
VideoT == <<"/", "v", ".", "m", "p", "4">>

Paths == {<<>>, RootT, AboutT, LogoT, StyleT, PostT, VideoT}

\* lines 87-105 computed once for every path of Paths
LocalPaths == [path \in Paths |-> LocalPathOf(unquote(path))]

get_local_path(url) == LocalPaths[url.path]

----------------------------------------------------------------------------
(* URLs: urlparse, urljoin and the fragment-free form of extract_links *)

Url(scheme, netloc, path, query, fragment) ==
    [scheme |-> scheme, netloc |-> netloc, path |-> path, query |-> query,
     fragment |-> fragment]

\* the dot-segment loop of urljoin: ".." pops (an empty stack stays empty),
\* "." is skipped
RECURSIVE ResolveDots(_, _)
ResolveDots(segments, resolved) ==
    IF Len(segments) = 0 THEN resolved
    ELSE IF segments[1] = <<".", ".">>
    THEN ResolveDots(Tail(segments),
                     IF Len(resolved) = 0 THEN resolved
                     ELSE SubSeq(resolved, 1, Len(resolved) - 1))
    ELSE IF segments[1] = <<".">>
    THEN ResolveDots(Tail(segments), resolved)
    ELSE ResolveDots(Tail(segments), Append(resolved, segments[1]))

\* base_parts: bpath.split('/') without its last part, unless that is ""
BaseParts(bsplit) ==
    IF bsplit[Len(bsplit)] # <<>> THEN SubSeq(bsplit, 1, Len(bsplit) - 1)
    ELSE bsplit

\* segments[1:-1] = filter(None, segments[1:-1])
FilterMiddle(joined) ==
    IF Len(joined) <= 2 THEN joined
    ELSE <<joined[1]>> \o NonEmpty(SubSeq(joined, 2, Len(joined) - 1))
         \o <<joined[Len(joined)]>>

\* the segments of the joined path
Segments(bpath, path) ==
    IF Len(path) > 0 /\ path[1] = "/" THEN Split(path, "/")
    ELSE FilterMiddle(BaseParts(Split(bpath, "/")) \o Split(path, "/"))

\* the resolved segments: a final "." or ".." leaves a trailing slash
Resolved(segments) ==
    IF segments[Len(segments)] \in {<<".">>, <<".", ".">>}
    THEN Append(ResolveDots(segments, <<>>), <<>>)
    ELSE ResolveDots(segments, <<>>)

\* '/'.join(resolved_path) or '/', and urlunparse's leading slash
PathText(text) ==
    IF text = <<>> THEN <<"/">>
    ELSE IF text[1] # "/" THEN <<"/">> \o text
    ELSE text

\* the path urljoin gives a reference with a path and no netloc
MergePath(bpath, path) ==
    PathText(Join(Resolved(Segments(bpath, path)), "/"))

\* urllib.parse.urljoin(base, url) for a base with a scheme and a netloc
urljoin(base, url) ==
    IF url.scheme # "" /\ url.scheme # base.scheme THEN url
    ELSE IF url.netloc # "" THEN [url EXCEPT !.scheme = base.scheme]
    ELSE IF url.path = <<>>
    THEN Url(base.scheme, base.netloc, base.path,
             IF url.query # "" THEN url.query ELSE base.query, url.fragment)
    ELSE Url(base.scheme, base.netloc, MergePath(base.path, url.path),
             url.query, url.fragment)

\* clean_url of extract_links: scheme://netloc/path[?query], no fragment
clean_url(parsed) == [parsed EXCEPT !.fragment = ""]

----------------------------------------------------------------------------
(* os.path.relpath and the directories of local paths *)

\* local_path.parent
Parent(local_path) ==
    IF Len(local_path) = 0 THEN <<>>
    ELSE SubSeq(local_path, 1, Len(local_path) - 1)

\* len(os.path.commonprefix([start_list, path_list]))
RECURSIVE CommonLen(_, _)
CommonLen(a, b) ==
    IF Len(a) > 0 /\ Len(b) > 0 /\ a[1] = b[1]
    THEN 1 + CommonLen(Tail(a), Tail(b)) ELSE 0

\* os.path.relpath(path, start), both below output_dir (posixpath: it never
\* raises ValueError there): the text "../"* + the rest, or "."
RelList(path_list, start_list, i) ==
    [k \in 1..(Len(start_list) - i) |-> <<".", ".">>]
    \o SubSeq(path_list, i + 1, Len(path_list))

JoinOrDot(rel_list) ==
    IF Len(rel_list) = 0 THEN <<".">> ELSE Join(rel_list, "/")

relpath(path_list, start_list) ==
    JoinOrDot(RelList(path_list, start_list,
                      CommonLen(start_list, path_list)))

\* an attribute value that is a bare path, as urlparse reads it back
PathRef(text) == Url("", "", text, "", "")

----------------------------------------------------------------------------
(* The environment: the websites served *)

\* the relative reference ../ and the robots.txt prefix /img
UpT    == <<".", ".", "/">>
ImgT   == <<"/", "i", "m", "g">>

Tag(kind, ref) == [kind |-> kind, ref |-> ref]

\* The document the server of site s holds at a path (a fragment is never
\* sent, and these servers ignore the query).
\*   "example": the homepage links to /about, embeds /img/logo.png and
\*              /style.css, and links to https://other.com/
\*   "blog":    the homepage links to itself and to two query variants of
\*              one post; the post links back with ../#top and embeds a
\*              video
Document(s, path) ==
    IF s = "example" /\ path \in {<<>>, RootT}
    THEN {Tag("a", Url("", "", AboutT, "", "")),
          Tag("img", Url("", "", LogoT, "", "")),
          Tag("stylesheet", Url("", "", StyleT, "", "")),
          Tag("a", Url("https", "other.com", RootT, "", ""))}
    ELSE IF s = "blog" /\ path \in {<<>>, RootT}
    THEN {Tag("a", Url("", "", RootT, "", "")),
          Tag("a", Url("", "", PostT, "v=1", "")),
          Tag("a", Url("", "", PostT, "v=2", ""))}
    ELSE IF s = "blog" /\ path = PostT
    THEN {Tag("a", Url("", "", UpT, "", "top")),
          Tag("video", Url("", "", VideoT, "", ""))}
    ELSE IF s = "chain" /\ path \in {<<>>, RootT}
    THEN {Tag("a", Url("", "", AboutT, "", "")),
          Tag("a", Url("", "", PostT, "v=1", ""))}
    ELSE IF s = "chain" /\ path = AboutT
    THEN {Tag("a", Url("", "", RootT, "", "")),
          Tag("a", Url("", "", PostT, "v=2", ""))}
    ELSE {}

Sites == {"example", "blog", "chain"}

\* the documents, hosts, queries and URLs these sites give rise to
Docs == {Document(s, path) : s \in Sites, path \in Paths}
Hosts == {"example.com", "other.com"}
Queries == {"", "v=1", "v=2"}
Urls == {Url("https", h, path, q, "") :
            h \in Hosts, path \in Paths, q \in Queries}

\* the Disallow prefixes robots.txt may hold
Policies == {{}, {StyleT}, {ImgT}}

\* self.robots_parser = None
NoParser == [loaded |-> FALSE, verdict |-> "none", disallow |-> {}]

\* a RobotFileParser that read these Disallow lines
Parser(disallow) ==
    [loaded |-> TRUE, verdict |-> "rules", disallow |-> disallow]

\* rp.read() got an HTTP error and did not raise: 401 or 403 sets
\* disallow_all, another 4xx sets allow_all, a 5xx leaves last_checked at 0
Refused == [loaded |-> TRUE, verdict |-> "disallow_all", disallow |-> {}]
Absent == [loaded |-> TRUE, verdict |-> "allow_all", disallow |-> {}]
Unread == [loaded |-> TRUE, verdict |-> "unread", disallow |-> {}]

\* what check_robots_txt can leave in self.robots_parser
Parsers == {NoParser, Refused, Absent, Unread} \cup {Parser(d) : d \in Policies}

\* the runs started: the site, the seed (validate_url leaves a trailing
\* slash, or its absence, as typed), --delay, and what the server has for
\* robots.txt
Runs ==
    {<<"example", Url("https", "example.com", RootT, "", ""), 1, Parsers>>,
     <<"example", Url("https", "example.com", RootT, "", ""), 0, {NoParser}>>,
     <<"blog", Url("https", "example.com", RootT, "", ""), 1,
       {NoParser, Refused}>>,
     <<"blog", Url("https", "example.com", <<>>, "", ""), 1, {NoParser}>>,
     <<"chain", Url("https", "example.com", RootT, "", ""), 1,
       {NoParser, Absent, Unread}>>}

\* no url yet
NoUrl == Url("", "", <<>>, "", "")

\* the summary is a sequence: empty until it is logged
NoSummary == <<>>

----------------------------------------------------------------------------
(* The downloader *)

\* self.domain = urlparse(base_url).netloc
domain == base_url.netloc

\* lines 72-74, with RobotFileParser.can_fetch('*', url): False under
\* disallow_all and, when nothing was ever read, under last_checked = 0;
\* True under allow_all; else the path (or "/") is matched by prefix
\* against the Disallow lines, whatever the host
can_fetch(url) ==
    IF ~robots_parser.loaded THEN TRUE
    ELSE IF robots_parser.verdict \in {"disallow_all", "unread"} THEN FALSE
    ELSE IF robots_parser.verdict = "allow_all" THEN TRUE
    ELSE LET target == IF url.path = <<>> THEN <<"/">> ELSE url.path
         IN  \A prefix \in robots_parser.disallow : ~StartsWith(target, prefix)

\* find_all(['a', 'link'], href=True)
HrefKinds == {"a", "link", "stylesheet"}

\* the tags extract_assets reads: img, link rel=stylesheet, script, video,
\* audio, source, and url(...) in a style attribute
AssetKinds == {"img", "stylesheet", "script", "video", "audio", "source",
               "style"}

\* lines 147-152 without the test of line 147
SameDomainLinks_unfiltered(full_urls, self_domain) ==
    {clean_url(parsed) : parsed \in full_urls}

\* lines 147-152 for the resolved hrefs
SameDomainLinks(full_urls, self_domain) ==
    {clean_url(parsed) :
        parsed \in {u \in full_urls : u.netloc = self_domain}}

\* the body of extract_links, self.domain given
ExtractLinks(doc, base, self_domain) ==
    SameDomainLinks({urljoin(base, t.ref) :
                        t \in {x \in doc : x.kind \in HrefKinds}},
                    self_domain)

\* the body of extract_assets
ExtractAssets(doc, base) ==
    {urljoin(base, t.ref) : t \in {x \in doc : x.kind \in AssetKinds}}

\* the value one loop of update_links_in_html leaves in a tag it finds:
\* a same-domain value becomes the relative path of its local file
NewValue(val, full_url, base_path, self_domain) ==
    IF full_url.netloc = self_domain
    THEN PathRef(relpath(get_local_path(full_url), base_path))
    ELSE val

\* one loop of update_links_in_html, over the tags of the given kinds
RewritePass(doc, kinds, original_url, base_path, self_domain) ==
    {[kind |-> t.kind, ref |-> t.ref,
      val |-> IF t.kind \in kinds
              THEN NewValue(t.val, urljoin(original_url, t.val), base_path,
                            self_domain)
              ELSE t.val] : t \in doc}

\* the loops of update_links_in_html in their order: a and link hrefs, img,
\* link rel=stylesheet (a second time), script
Passes == <<HrefKinds, {"img"}, {"stylesheet"}, {"script"}>>

RECURSIVE RewriteAll(_, _, _, _, _)
RewriteAll(doc, passes, original_url, base_path, self_domain) ==
    IF Len(passes) = 0 THEN doc
    ELSE RewriteAll(RewritePass(doc, Head(passes), original_url, base_path,
                                self_domain),
                    Tail(passes), original_url, base_path, self_domain)

\* the body of update_links_in_html, self.domain given. The saved document
\* is every tag with the attribute value it was served with (ref) and the
\* value written (val)
UpdateLinks(doc, original_url, self_domain) ==
    RewriteAll({[kind |-> t.kind, ref |-> t.ref, val |-> t.ref] : t \in doc},
               Passes, original_url, Parent(get_local_path(original_url)),
               self_domain)

\* the three methods computed once for every document, URL and seed host of
\* the modelled sites
LinksOf ==
    [doc \in Docs, base \in Urls, d \in Hosts |-> ExtractLinks(doc, base, d)]
AssetsOf ==
    [doc \in Docs, base \in Urls |-> ExtractAssets(doc, base)]
UpdatedOf ==
    [doc \in Docs, base \in Urls, d \in Hosts |-> UpdateLinks(doc, base, d)]

extract_links(doc, base) == LinksOf[doc, base, domain]

extract_assets(doc, base) == AssetsOf[doc, base]

update_links_in_html(doc, original_url) == UpdatedOf[doc, original_url, domain]

Put(f, k, v) == [x \in DOMAIN f \cup {k} |-> IF x = k THEN v ELSE f[x]]

\* session.get(url) is called once more
Got(counts, url) ==
    Put(counts, url,
        Min((IF url \in DOMAIN counts THEN counts[url] ELSE 0) + 1, MaxCount))

Event(op, url) == [op |-> op, url |-> url]

Outcomes == {"ok", "get_fails", "write_fails"}

\* download_file without the robots test of lines 110-112
download_file_ungated(url, local_path, outcome) ==
    IF outcome = "ok"
    THEN [ret |-> TRUE, op |-> "asset_saved", getCount |-> Got(getCount, url),
          files |-> Put(files, local_path,
                        [url |-> url, kind |-> "asset", doc |-> {}]),
          failed_urls |-> failed_urls]
    ELSE [ret |-> FALSE, op |-> "asset_failed",
          getCount |-> Got(getCount, url), files |-> files,
          failed_urls |-> failed_urls \cup {url}]

\* download_file(url, local_path) when the transport and the filesystem
\* behave as outcome says: what it returns and what it leaves behind
download_file(url, local_path, outcome) ==
    IF ~can_fetch(url)
    THEN [ret |-> FALSE, op |-> "asset_denied", getCount |-> getCount,
          files |-> files, failed_urls |-> failed_urls]
    ELSE IF outcome = "ok"
    THEN [ret |-> TRUE, op |-> "asset_saved", getCount |-> Got(getCount, url),
          files |-> Put(files, local_path,
                        [url |-> url, kind |-> "asset", doc |-> {}]),
          failed_urls |-> failed_urls]
    ELSE [ret |-> FALSE, op |-> "asset_failed",
          getCount |-> Got(getCount, url), files |-> files,
          failed_urls |-> failed_urls \cup {url}]

Init ==
    /\ \E r \in Runs :
           /\ site = r[1]
           /\ base_url = r[2]
           /\ delay = r[3]
           /\ robots_parser \in r[4]
    /\ url_queue = <<base_url>>
    /\ downloaded_urls = {}
    /\ downloaded_files = {}
    /\ failed_urls = {}
    /\ pc = "loop"
    /\ cur = NoUrl
    /\ soup = {}
    /\ pending = {}
    /\ files = <<>>
    /\ getCount = <<>>
    /\ last = Event("init", NoUrl)
    /\ summary = NoSummary
    /\ enqueued = <<[url |-> base_url, depth |-> 0]>>
    /\ attempted = {}

\* a pop() from the right end of the deque
pop_right(queue) ==
    [url |-> queue[Len(queue)], rest |-> SubSeq(queue, 1, Len(queue) - 1)]

\* self.url_queue.popleft(): the url returned and what is left
popleft(queue) == [url |-> Head(queue), rest |-> Tail(queue)]

\* lines 292-296: popleft, and skip a url already saved
Dequeue ==
    /\ pc = "loop"
    /\ url_queue # <<>>
    /\ LET url == popleft(url_queue).url
       IN  /\ url_queue' = popleft(url_queue).rest
           /\ attempted' = attempted \cup {url}
           /\ IF url \in downloaded_urls
              THEN /\ pc' = "loop"
                   /\ cur' = cur
                   /\ last' = Event("skip", url)
              ELSE /\ pc' = "process"
                   /\ cur' = url
                   /\ last' = Event("pop", url)
    /\ UNCHANGED <<enqueued, site, base_url, delay, robots_parser,
                   downloaded_urls, downloaded_files, failed_urls, soup,
                   pending, files, getCount, summary>>

\* process_html_page returns before any fetch: lines 242-243 and 246-248
PageNotFetched ==
    /\ pc = "process"
    /\ ~(cur \notin downloaded_urls /\ can_fetch(cur))
    /\ pc' = "sleep"
    /\ last' = Event(IF cur \in downloaded_urls THEN "page_skipped"
                     ELSE "page_denied", cur)
    /\ UNCHANGED <<enqueued, attempted, site, base_url, delay, robots_parser,
                   url_queue, downloaded_urls, downloaded_files, failed_urls,
                   cur, soup, pending, files, getCount, summary>>

\* a handler that logs the error and forgets line 285
PageFailure_unrecorded(url) ==
    /\ failed_urls' = failed_urls
    /\ pc' = "sleep"

\* the handler of lines 283-285 after session.get or raise_for_status raised
PageFailure(url) ==
    /\ failed_urls' = failed_urls \cup {url}
    /\ pc' = "sleep"

\* lines 251-252 raise: a transport error or a status that is not 2xx
PageFetchFails ==
    /\ pc = "process"
    /\ cur \notin downloaded_urls
    /\ can_fetch(cur)
    /\ getCount' = Got(getCount, cur)
    /\ PageFailure(cur)
    /\ last' = Event("page_failed", cur)
    /\ UNCHANGED <<enqueued, attempted, site, base_url, delay, robots_parser,
                   url_queue, downloaded_urls, downloaded_files, cur, soup,
                   pending, files, summary>>

\* line 259 without "link not in self.url_queue"
NewLinks_requeued(page_links) ==
    {link \in page_links : link \notin downloaded_urls}

\* the links lines 258-260 append, in the order the set page_links yields
NewLinks(page_links) ==
    {link \in page_links :
        link \notin downloaded_urls /\ link \notin Range(url_queue)}

Orders(S) ==
    {order \in [1..Cardinality(S) -> S] :
        \A i, j \in 1..Cardinality(S) : order[i] = order[j] => i = j}

\* the URLs of a history, and the distance at which one was found
Known(history) == {history[i].url : i \in 1..Len(history)}

DepthIn(history, url) ==
    history[CHOOSE i \in 1..Len(history) : history[i].url = url].depth

Entries(fresh, depth) ==
    [i \in 1..Len(fresh) |-> [url |-> fresh[i], depth |-> depth]]

\* the history after line 260 appended the links of order, found on parent:
\* a link appended for the first time is one step further than parent
Found(history, order, parent) ==
    LET IsNew(url) == url \notin Known(history)
    IN  history \o Entries(SelectSeq(order, IsNew),
                           DepthIn(history, parent) + 1)

\* lines 251-263: the page is fetched and parsed, its links are queued and
\* its assets collected
PageFetched ==
    /\ pc = "process"
    /\ cur \notin downloaded_urls
    /\ can_fetch(cur)
    /\ getCount' = Got(getCount, cur)
    /\ soup' = Document(site, cur.path)
    /\ \E order \in Orders(NewLinks(extract_links(Document(site, cur.path),
                                                   cur))) :
           /\ url_queue' = url_queue \o order
           /\ enqueued' = Found(enqueued, order, cur)
    /\ pending' = extract_assets(Document(site, cur.path), cur)
    /\ pc' = "assets"
    /\ last' = Event("page_fetched", cur)
    /\ UNCHANGED <<attempted, site, base_url, delay, robots_parser,
                   downloaded_urls, downloaded_files, failed_urls, cur, files,
                   summary>>

\* lines 267-268 once download_file has returned r
AssetDone(asset_url, r) ==
    /\ getCount' = r.getCount
    /\ files' = r.files
    /\ failed_urls' = r.failed_urls
    /\ downloaded_files' = IF r.ret THEN downloaded_files \cup {asset_url}
                           ELSE downloaded_files
    /\ last' = Event(r.op, asset_url)

\* one turn of the loop of lines 264-268
DownloadAsset ==
    /\ pc = "assets"
    /\ \E asset_url \in pending, outcome \in Outcomes :
           /\ pending' = pending \ {asset_url}
           /\ IF asset_url \in downloaded_files
              THEN /\ last' = Event("asset_skipped", asset_url)
                   /\ UNCHANGED <<downloaded_files, failed_urls, files,
                                  getCount>>
              ELSE AssetDone(asset_url,
                             download_file(asset_url,
                                           get_local_path(asset_url), outcome))
    /\ UNCHANGED <<enqueued, attempted, site, base_url, delay, robots_parser,
                   url_queue, downloaded_urls, pc, cur, soup, summary>>

\* a loop of line 264 that is left before every asset had its turn
LoopEnded_early(assets) == TRUE

\* the for loop of line 264 has ended: no asset of the page is left
LoopEnded(assets) == assets = {}

\* lines 270-285: the links are rewritten and the page is written, or the
\* write raises and the handler records the url
SavePage ==
    /\ pc = "assets"
    /\ LoopEnded(pending)
    /\ \E outcome \in {"ok", "write_fails"} :
           IF outcome = "ok"
           THEN /\ files' = Put(files, get_local_path(cur),
                                [url |-> cur, kind |-> "page",
                                 doc |-> update_links_in_html(soup, cur)])
                /\ downloaded_urls' = downloaded_urls \cup {cur}
                /\ pc' = "sleep"
                /\ last' = Event("page_saved", cur)
                /\ UNCHANGED failed_urls
           ELSE /\ PageFailure(cur)
                /\ last' = Event("page_write_failed", cur)
                /\ UNCHANGED <<files, downloaded_urls>>
    /\ soup' = {}
    /\ UNCHANGED <<enqueued, attempted, site, base_url, delay, robots_parser,
                   url_queue, downloaded_files, cur, pending, getCount,
                   summary>>

\* a loop that never sleeps
ShouldSleep_never(d) == FALSE

\* line 301
ShouldSleep(d) == d > 0

\* lines 301-302
Delay ==
    /\ pc = "sleep"
    /\ pc' = "loop"
    /\ last' = Event(IF ShouldSleep(delay) THEN "sleep" ELSE "no_sleep", cur)
    /\ UNCHANGED <<enqueued, attempted, site, base_url, delay, robots_parser,
                   url_queue, downloaded_urls, downloaded_files, failed_urls,
                   cur, soup, pending, files, getCount, summary>>

\* a loop that is left while URLs are still queued
Exhausted_early(queue) == TRUE

\* line 292: "while self.url_queue" is false
Exhausted(queue) == queue = <<>>

\* lines 292 and 304-314: the queue is empty and the summary is logged
Finish ==
    /\ pc = "loop"
    /\ Exhausted(url_queue)
    /\ summary' = <<[pages |-> Cardinality(downloaded_urls),
                     assets |-> Cardinality(downloaded_files),
                     failed |-> Cardinality(failed_urls)]>>
    /\ pc' = "done"
    /\ last' = Event("summary", NoUrl)
    /\ UNCHANGED <<enqueued, attempted, site, base_url, delay, robots_parser,
                   url_queue, downloaded_urls, downloaded_files, failed_urls,
                   cur, soup, pending, files, getCount>>

\* KeyboardInterrupt, which no "except Exception" catches: main's handler
\* of lines 438-440 prints and exits
Interrupt ==
    /\ pc \notin {"done", "interrupted"}
    /\ pc' = "interrupted"
    /\ last' = Event("interrupt", cur)
    /\ UNCHANGED <<enqueued, attempted, site, base_url, delay, robots_parser,
                   url_queue, downloaded_urls, downloaded_files, failed_urls,
                   cur, soup, pending, files, getCount, summary>>

\* the program's own steps
Run ==
    \/ Dequeue
    \/ PageNotFetched
    \/ PageFetchFails
    \/ PageFetched
    \/ DownloadAsset
    \/ SavePage
    \/ Delay
    \/ Finish

Next == Run \/ Interrupt

Spec == Init /\ [][Next]_vars

\* the interpreter keeps running the program until it ends; no interrupt
\* has to arrive
FairSpec == Init /\ [][Run]_vars /\ WF_vars(Run)

----------------------------------------------------------------------------
(* The claims *)

\* the urls a step appended to url_queue
Appended == {url_queue'[i] : i \in (Len(url_queue) + 1)..Len(url_queue')}

\* the step in which process_html_page fetched and parsed cur
FetchedStep == pc = "process" /\ pc' = "assets"

\* the href references (a and link tags) of a document
Hrefs(doc) == {t \in doc : t.kind \in HrefKinds}

\* The CanonicalURL of the spec: scheme + host + path + query, no fragment.
\* The empty path and "/" name one resource (RFC 3986, 6.2.3), so a seed
\* typed without its slash is not counted as a second URL.
Canonical(url) ==
    [url EXCEPT !.fragment = "",
                !.path = IF url.path = <<>> THEN <<"/">> ELSE url.path]

\* C1: from a seed with a finite same-domain link graph the loop of
\* download_website terminates, whatever each fetch, robots check and file
\* write does: the summary is reached with url_queue empty.
C1_Terminates == <>(pc = "done" /\ url_queue = <<>>)

\* C2: session.get is called at most once per canonical URL in a run, page
\* fetches and asset fetches counted together.
C2_AtMostOneGet ==
    /\ \A u \in DOMAIN getCount : getCount[u] <= 1
    /\ \A u, v \in DOMAIN getCount : Canonical(u) = Canonical(v) => u = v

\* C3 as stated: every href reference found on a fetched page is appended
\* to url_queue if and only if its host equals the seed host.
C3_AppendedIffSameHost ==
    [][FetchedStep =>
          \A t \in Hrefs(soup') :
              (clean_url(urljoin(cur, t.ref)) \in Appended)
                  <=> (urljoin(cur, t.ref).netloc = domain)]_vars

\* C3 as amended: an href reference is appended to url_queue if and only if
\* its host equals the seed host and its fragment-free URL is neither in
\* downloaded_urls nor already in url_queue; every URL in url_queue and
\* every URL process_html_page works on or fetches has the seed host.
C3_DomainContainment ==
    /\ [][FetchedStep =>
             \A t \in Hrefs(soup') :
                 (clean_url(urljoin(cur, t.ref)) \in Appended)
                     <=> /\ urljoin(cur, t.ref).netloc = domain
                         /\ clean_url(urljoin(cur, t.ref)) \notin downloaded_urls
                         /\ clean_url(urljoin(cur, t.ref)) \notin Range(url_queue)]_vars
    /\ [](\A u \in Range(url_queue) : u.netloc = domain)
    /\ [](pc \in {"process", "assets", "sleep"} => cur.netloc = domain)
    /\ [](last.op \in {"page_fetched", "page_failed"}
             => last.url.netloc = domain)

\* a page with an off-domain link and a same-domain link has been fetched,
\* and a link of it is queued
C3_Witness ==
    /\ last.op = "page_fetched"
    /\ \E t \in Hrefs(soup) : urljoin(cur, t.ref).netloc # domain
    /\ \E t \in Hrefs(soup) : clean_url(urljoin(cur, t.ref)) \in Range(url_queue)

\* C4: a URL the robots gate denies is never passed to session.get, as a
\* page or as an asset, and is never in downloaded_urls or downloaded_files.
C4_RobotsGate ==
    \A u \in DOMAIN getCount \cup downloaded_urls \cup downloaded_files :
        can_fetch(u)

\* the crawl of the example site ended with its homepage saved while
\* robots.txt disallows /style.css, which the homepage names both as an
\* asset and as a link
C4_Witness ==
    /\ pc = "done"
    /\ site = "example"
    /\ base_url \in downloaded_urls
    /\ ~can_fetch(Url("https", "example.com", StyleT, "", ""))

\* C5: on the example site, seeded with https://example.com/ and with every
\* fetch succeeding, the crawl ends with 2 URLs in downloaded_urls, 2 in
\* downloaded_files, none in failed_urls, and other.com never fetched.
C5_ExampleScenario ==
    (/\ pc = "done"
     /\ site = "example"
     /\ base_url = Url("https", "example.com", RootT, "", "")
     /\ \A u \in Urls : can_fetch(u)
     /\ failed_urls = {})
    => /\ Cardinality(downloaded_urls) = 2
       /\ Cardinality(downloaded_files) = 2
       /\ Cardinality(failed_urls) = 0
       /\ summary = <<[pages |-> 2, assets |-> 2, failed |-> 0]>>
       /\ \A u \in DOMAIN getCount : u.netloc # "other.com"

\* C6: a failed page fetch puts the URL in failed_urls and the loop goes on
\* with the queue as it was; failed_urls never loses a URL, and the summary
\* is produced with the queue empty and counts every failed URL.
C6_PageErrorContinues ==
    /\ [][(pc = "process" /\ last'.op = "page_failed")
             => /\ cur \in failed_urls'
                /\ pc' = "sleep"
                /\ url_queue' = url_queue]_vars
    /\ [][failed_urls \subseteq failed_urls']_vars
    /\ [](pc = "sleep" => ENABLED Delay)
    /\ [](pc = "done" => /\ url_queue = <<>>
                         /\ summary # NoSummary
                         /\ summary[1].failed = Cardinality(failed_urls))

\* a page fetch has just failed while other URLs wait in the queue
C6_Witness ==
    /\ last.op = "page_failed"
    /\ last.url \in failed_urls
    /\ url_queue # <<>>

\* normpath(join(dir, text)) for a directory below output_dir; a text that
\* starts with "/" resolves from the root of the filesystem, outside
\* output_dir, which the leading component "/" marks
RECURSIVE Walk(_, _)
Walk(dir, comps) ==
    IF Len(comps) = 0 THEN dir
    ELSE IF comps[1] = <<".", ".">>
    THEN Walk(Parent(dir), Tail(comps))
    ELSE IF comps[1] \in {<<>>, <<".">>} THEN Walk(dir, Tail(comps))
    ELSE Walk(Append(dir, comps[1]), Tail(comps))

ResolveFrom(dir, text) ==
    IF Len(text) > 0 /\ text[1] = "/"
    THEN Walk(<< <<"/">> >>, Split(text, "/"))
    ELSE Walk(dir, Split(text, "/"))

\* C7: in every saved page P, every same-domain reference R (a, link, img,
\* stylesheet, script, video, audio, source, url(...) of a style attribute)
\* holds the path of get_local_path(R) relative to the directory of P's
\* local path, and resolves from there to get_local_path(R); an off-domain
\* reference holds what it was served with.
C7_RewriteCorrect ==
    \A lp \in DOMAIN files :
        files[lp].kind = "page" =>
            \A t \in files[lp].doc :
                IF urljoin(files[lp].url, t.ref).netloc = domain
                THEN /\ t.val = PathRef(relpath(
                                   get_local_path(urljoin(files[lp].url, t.ref)),
                                   Parent(lp)))
                     /\ ResolveFrom(Parent(lp), t.val.path)
                            = get_local_path(urljoin(files[lp].url, t.ref))
                ELSE t.val = t.ref

\* C8: after a KeyboardInterrupt no further fetch is started and the summary
\* of the work done so far has been emitted when the process exits.
C8_SummaryOnInterrupt ==
    pc = "interrupted" => summary # NoSummary

\* C9: get_local_path is injective on the canonical URLs written in a run:
\* no file written for one URL is overwritten by the file of another.
C9_NoOverwrite ==
    [][\A lp \in DOMAIN files :
           lp \in DOMAIN files'
               => Canonical(files'[lp].url) = Canonical(files[lp].url)]_vars

\* C10: url_queue never holds a URL twice, and downloaded_urls.add(url) of
\* line 280 runs only for a URL that is not yet in downloaded_urls.
C10_QueueUnique ==
    /\ [](\A i, j \in 1..Len(url_queue) :
              url_queue[i] = url_queue[j] => i = j)
    /\ [][(pc = "assets" /\ last'.op = "page_saved")
             => /\ cur \notin downloaded_urls
                /\ downloaded_urls' = downloaded_urls \cup {cur}]_vars
    /\ [][downloaded_urls' # downloaded_urls
             => (pc = "assets" /\ last'.op = "page_saved")]_vars

\* a dequeued URL was skipped as already saved (it had been queued before it
\* was saved) while other URLs wait in the queue
C10_Witness ==
    /\ last.op = "skip"
    /\ last.url \in downloaded_urls
    /\ Len(url_queue) >= 1

\* robots.txt was not loaded: rp.read() raised, or the server answered the
\* request for it with an HTTP error
LoadFailed == robots_parser.verdict # "rules"

\* C17: when loading robots.txt fails, for any reason, the downloader is
\* still constructed, robots_parser is unset and can_fetch returns true for
\* every URL for the rest of the run; the crawl is not aborted, so it ends
\* with the seed fetched (saved or failed).
C17_RobotsFailureAllowsAll ==
    LoadFailed
        => /\ robots_parser = NoParser
           /\ \A u \in Urls : can_fetch(u)
           /\ pc = "done" => base_url \in downloaded_urls \cup failed_urls

\* C12: downloaded_urls and downloaded_files are disjoint in every
\* reachable state: no URL is counted as a saved page and as an asset.
C12_PagesAssetsDisjoint == downloaded_urls \cap downloaded_files = {}

\* C13: whenever a page or asset attempt ends without success (network
\* error, non-2xx status, robots disallow) its URL is in failed_urls
\* afterwards.
C13_FailedHoldsEveryFailure ==
    last.op \in {"page_failed", "asset_failed", "page_denied", "asset_denied"}
        => last.url \in failed_urls

\* C18: no URL is both in a success set and in failed_urls, whatever the
\* fetch outcomes, a second attempt after a failure included.
C18_SuccessFailureDisjoint ==
    /\ downloaded_urls \cap failed_urls = {}
    /\ downloaded_files \cap failed_urls = {}

\* every URL some document of the server names as an asset
AssetUrls == UNION {extract_assets(doc, base) : doc \in Docs, base \in Urls}

\* the URLs in a terminal state: Saved, or Failed by the handler of lines
\* 283-285 (a URL in failed_urls that no document names as an asset was
\* put there by process_html_page)
Terminal == downloaded_urls \cup (failed_urls \ AssetUrls)

\* C11: a URL that is Saved or Failed is never appended to url_queue again
\* and never fetched as a page again, and is skipped when it is dequeued.
C11_TerminalIsFinal ==
    /\ [][\A u \in Appended : u \notin Terminal]_vars
    /\ [][(pc = "process" /\ last'.op \in {"page_fetched", "page_failed"})
             => cur \notin Terminal]_vars
    /\ [][(pc = "loop" /\ url_queue # <<>> /\ url_queue' = Tail(url_queue)
             /\ Head(url_queue) \in Terminal)
             => (last'.op = "skip" /\ pc' = "loop")]_vars

\* the page of cur is written, or its write fails: lines 274-278
WriteStep == pc = "assets" /\ last'.op \in {"page_saved", "page_write_failed"}

\* C15: every asset download of a page has ended, in success or failure,
\* before the page's own file is written, and a failed asset download does
\* not end the processing of the page: the page can still be saved and
\* added to downloaded_urls.
C15_AssetsBeforePage ==
    /\ [][WriteStep
             => /\ pending = {}
                /\ \A a \in extract_assets(soup, cur) :
                       \/ a \in downloaded_files
                       \/ a \in failed_urls
                       \/ ~can_fetch(a)]_vars
    /\ [][(pc = "assets" /\ last'.op \in {"asset_failed", "asset_denied"})
             => /\ pc' = "assets"
                /\ cur' = cur
                /\ downloaded_urls' = downloaded_urls
                /\ failed_urls' \subseteq failed_urls \cup {last'.url}]_vars
    /\ [](pc = "assets" /\ pending = {}
             => ENABLED (SavePage /\ last'.op = "page_saved"
                            /\ cur \in downloaded_urls'))

\* a page was saved although one of its assets failed to download
C15_Witness ==
    /\ last.op = "page_saved"
    /\ cur \in downloaded_urls
    /\ \E a \in extract_assets(Document(site, cur.path), cur) :
           a \in failed_urls /\ a \notin downloaded_files

\* C16: with delay > 0 the loop sleeps after every call of
\* process_html_page, whether the fetch succeeded or failed, before it
\* dequeues the next URL; a dequeued URL that is skipped as already saved
\* goes back to the head of the loop without a sleep.
C16_DelayAfterEveryFetch ==
    /\ [](pc = "loop" /\ delay > 0 => last.op \in {"init", "skip", "sleep"})
    /\ [][(pc # "loop" /\ pc' = "loop" /\ delay > 0)
             => (pc = "sleep" /\ last'.op = "sleep")]_vars
    /\ [][(pc \in {"process", "assets"})
             => (pc' \in {"assets", "sleep", "interrupted"})]_vars
    /\ [][(pc = "loop" /\ url_queue # <<>> /\ url_queue' = Tail(url_queue)
             /\ Head(url_queue) \in downloaded_urls)
             => (pc' = "loop" /\ last'.op = "skip")]_vars

\* the loop has slept after a failed page fetch and URLs are still queued
C16_Witness ==
    /\ delay > 0
    /\ pc = "loop"
    /\ last.op = "sleep"
    /\ last.url \in failed_urls
    /\ last.url \notin downloaded_urls
    /\ url_queue # <<>>

C19_AllAccounted ==
    pc = "done"
        => /\ url_queue = <<>>
           /\ \A u \in Known(enqueued) :
                  \/ u \in downloaded_urls
                  \/ u \in failed_urls
                  \/ ~can_fetch(u)

\* a crawl has ended with a saved page, a failed page and a page the
\* robots gate denied
C19_Witness ==
    /\ pc = "done"
    /\ \E u \in Known(enqueued) : u \in downloaded_urls
    /\ \E u \in Known(enqueued) : u \in failed_urls \ downloaded_urls
    /\ \E u \in Known(enqueued) : ~can_fetch(u)

=============================================================================
